---- MODULE Spec2Model ----
(***************************************************************************)
(* A model of vep_annotation_reporter.py (package vcf_annotation_tools):   *)
(* the tool that copies VEP (CSQ) annotations of a VCF into a TSV report.  *)
(*                                                                         *)
(* Python values are modelled as follows.                                  *)
(*   str            a TLA+ string (Len, \o, SubSeq act on strings in TLC)   *)
(*   list           a sequence                                             *)
(*   dict           a function whose DOMAIN is the set of keys             *)
(*   None / a value <<>> / <<value>>  (NoneV, Some)                        *)
(*   a call that may raise: a record [exc, val]; exc = "" when it returns  *)
(***************************************************************************)
EXTENDS Integers, Sequences, FiniteSets, TLC

VARIABLES
    pc,            \* where main is: "start", "build", "stream", "done", "aborted"
    err,           \* name of the exception that ended the run ("" if none)
    vep_fields,    \* args.vep_fields
    header,        \* the VCF header entries handed to parse_csq_header
    csq_fields,    \* result of parse_csq_header: NoneV or Some(list of names)
    vep,           \* the index: chr -> pos -> ref -> alt -> NoneV | Some(transcript)
    variant,       \* NoneV or Some(the VCF record of the last loop iteration)
    n_variants,    \* number of VCF records read
    fieldnames,    \* reader.fieldnames of the input report
    out_open,      \* whether the output file has been opened for writing
    out,           \* lines written to the output file (header first)
    report,        \* the report rows read so far, as read from the input file
    collected,     \* field_annotations of every requested field, last row
    entry_states,  \* entry as it stood when each field was processed, last row
    fn,            \* which function a unit specification applies
    fn_in,         \* its argument(s)
    fn_out         \* NoneV before the call, Some(result) after

vars == <<pc, err, vep_fields, header, csq_fields, vep, variant, n_variants,
          fieldnames, out_open, out, report, collected, entry_states,
          fn, fn_in, fn_out>>

main_vars == <<pc, err, vep_fields, header, csq_fields, vep, variant,
               n_variants, fieldnames, out_open, out, report, collected,
               entry_states>>

unit_vars == <<fn, fn_in, fn_out>>

(***************************************************************************)
(* Python values                                                           *)
(***************************************************************************)
NoneV == <<>>
Some(x) == <<x>>
IsNone(o) == Len(o) = 0
Get(o) == o[1]

Ok(v) == [exc |-> "", val |-> v]
Raise(e) == [exc |-> e, val |-> NoneV]

EmptyDict == [k \in {} |-> NoneV]
\* d[k] = v
Put(d, k, v) == [x \in DOMAIN d \cup {k} |-> IF x = k THEN v ELSE d[x]]

Min(a, b) == IF a < b THEN a ELSE b

\* s[i-1] for a 1-based i
Char(s, i) == SubSeq(s, i, i)

\* s.find(c) + 1 for a single character c: 0 when c is not in s
IndexOf(s, c) ==
    IF \E i \in 1..Len(s) : Char(s, i) = c
    THEN CHOOSE i \in 1..Len(s) :
            /\ Char(s, i) = c
            /\ \A j \in 1..(i - 1) : Char(s, j) # c
    ELSE 0

\* s.rfind(c) + 1
LastIndexOf(s, c) ==
    IF \E i \in 1..Len(s) : Char(s, i) = c
    THEN CHOOSE i \in 1..Len(s) :
            /\ Char(s, i) = c
            /\ \A j \in (i + 1)..Len(s) : Char(s, j) # c
    ELSE 0

\* s.find(sub) + 1
Find(s, sub) ==
    LET n == Len(sub)
        Hit(i) == SubSeq(s, i, i + n - 1) = sub
    IN  IF \E i \in 1..(Len(s) - n + 1) : Hit(i)
        THEN CHOOSE i \in 1..(Len(s) - n + 1) :
                Hit(i) /\ \A j \in 1..(i - 1) : ~Hit(j)
        ELSE 0

\* s.split(sep) for a one-character separator
RECURSIVE Split(_, _)
Split(s, sep) ==
    LET i == IndexOf(s, sep)
    IN  IF i = 0 THEN <<s>>
        ELSE <<SubSeq(s, 1, i - 1)>> \o Split(SubSeq(s, i + 1, Len(s)), sep)

\* sep.join(items)
RECURSIVE Join(_, _)
Join(items, sep) ==
    IF Len(items) = 0 THEN ""
    ELSE IF Len(items) = 1 THEN items[1]
    ELSE items[1] \o sep \o Join(Tail(items), sep)

\* str(n) for an int n >= 0
RECURSIVE IntToStr(_)
IntToStr(n) ==
    IF n < 10 THEN Char("0123456789", n + 1)
    ELSE IntToStr(n \div 10) \o Char("0123456789", (n % 10) + 1)

(***************************************************************************)
(* decode_hex and the re.sub that applies it (lines 86-88, 150)            *)
(***************************************************************************)
\* The printable ASCII characters in code point order: 32..95, then 97..126
\* (a TLA+ string literal cannot hold the grave accent, code point 96).
AsciiLow == " !\"#$%&'()*+,-./0123456789:;<=>?@ABCDEFGHIJKLMNOPQRSTUVWXYZ[\\]^_"
AsciiHigh == "abcdefghijklmnopqrstuvwxyz{|}~"

\* bytes([b]).decode('utf-8') for a byte b < 0x80. The model spells the
\* printable characters other than the grave accent; the hex digits of
\* DecodeAlphabet and of the annotation values of Variants decode to no other.
decode_utf8(b) == IF b <= 95 THEN Char(AsciiLow, b - 31) ELSE Char(AsciiHigh, b - 96)

\* The value binascii.unhexlify gives a hex digit; -1: not a hex digit.
HexDigits == "0123456789ABCDEF"
HexValue(c) ==
    LET u == IndexOf(HexDigits, c)
        l == IndexOf("abcdef", c)
    IN  IF u > 0 THEN u - 1 ELSE IF l > 0 THEN l + 9 ELSE -1

\* The character class [0-9|A-F] of the pattern at line 150: the digits,
\* the vertical bar and the upper-case letters A to F.
InClass(c) == IndexOf("0123456789|ABCDEF", c) > 0

\* Whether r'%[0-9|A-F][0-9|A-F]' matches at position i of s.
MatchesAt(s, i) ==
    /\ i + 2 <= Len(s)
    /\ Char(s, i) = "%"
    /\ InClass(Char(s, i + 1))
    /\ InClass(Char(s, i + 2))

\* decode_hex(match): match.group(0) with '%' removed, unhexlified, decoded
\* as UTF-8. A '|' is no hex digit (binascii.Error); a lone byte >= 0x80 is
\* no UTF-8 text (UnicodeDecodeError).
decode_hex(m) ==
    LET hex_string == SubSeq(m, 2, 3)
        hi == HexValue(Char(hex_string, 1))
        lo == HexValue(Char(hex_string, 2))
        byte == 16 * hi + lo
    IN  IF hi < 0 \/ lo < 0 THEN [exc |-> "binascii.Error", val |-> ""]
        ELSE IF byte >= 128 THEN [exc |-> "UnicodeDecodeError", val |-> ""]
        ELSE [exc |-> "", val |-> decode_utf8(byte)]

\* re.sub(r'%[0-9|A-F][0-9|A-F]', decode_hex, s): the matches are found
\* left to right and do not overlap; the first exception ends the call.
RECURSIVE re_sub_from(_, _)
re_sub_from(s, i) ==
    IF i > Len(s) THEN [exc |-> "", val |-> ""]
    ELSE IF MatchesAt(s, i)
    THEN LET d == decode_hex(SubSeq(s, i, i + 2))
             rest == re_sub_from(s, i + 3)
         IN  IF d.exc # "" THEN d
             ELSE IF rest.exc # "" THEN rest
             ELSE [exc |-> "", val |-> d.val \o rest.val]
    ELSE LET rest == re_sub_from(s, i + 1)
         IN  IF rest.exc # "" THEN rest
             ELSE [exc |-> "", val |-> Char(s, i) \o rest.val]

re_sub(s) == re_sub_from(s, 1)

(***************************************************************************)
(* parse_csq_header (lines 34-40)                                          *)
(*                                                                         *)
(* A header is the list of the dicts header.info(extra=True) gives, one    *)
(* per header line: a dict with, or without, the keys "ID" and             *)
(* "Description". The Description keeps the double quotes of the VCF line. *)
(***************************************************************************)
\* re.compile('Format: (.*)"').search(d): the leftmost 'Format: ' that a
\* double quote follows; the greedy group runs to the last double quote.
\* NoneV when there is no match, else Some(match.group(1)).
format_search(d) ==
    LET i == Find(d, "Format: ")
        j == LastIndexOf(d, "\"")
    IN  IF i = 0 \/ j < i + 8 THEN NoneV
        ELSE Some(SubSeq(d, i + 8, j - 1))

RECURSIVE parse_csq_header(_)
parse_csq_header(headers) ==
    IF Len(headers) = 0 THEN Ok(NoneV)          \* the loop ends: returns None
    ELSE LET info == Head(headers)
         IN  IF "ID" \in DOMAIN info /\ info["ID"] = "CSQ"
             THEN IF "Description" \notin DOMAIN info THEN Raise("KeyError")
                  ELSE LET match == format_search(info["Description"])
                       IN  IF IsNone(match)
                           THEN Raise("AttributeError")   \* None.group(1)
                           ELSE Ok(Some(Split(Get(match), "|")))
             ELSE parse_csq_header(Tail(headers))

(***************************************************************************)
(* parse_csq_entries (lines 42-52)                                         *)
(***************************************************************************)
\* dict(zip(keys, values)): pairs up to the shorter list; of two equal keys
\* the later one keeps its value.
zip_dict(keys, values) ==
    LET n == Min(Len(keys), Len(values))
    IN  [k \in {keys[i] : i \in 1..n} |->
            values[CHOOSE i \in 1..n :
                      keys[i] = k /\ \A j \in (i + 1)..n : keys[j] # k]]

RECURSIVE parse_entries_loop(_, _, _)
parse_entries_loop(csq_entries, fields, transcripts) ==
    IF Len(csq_entries) = 0 THEN Ok(transcripts)
    ELSE LET values == Split(Head(csq_entries), "|")
             transcript == zip_dict(fields, values)
         IN  IF "Allele" \notin DOMAIN transcript THEN Raise("KeyError")
             ELSE LET a == transcript["Allele"]
                      t1 == IF a \notin DOMAIN transcripts
                            THEN Put(transcripts, a, <<>>)
                            ELSE transcripts
                  IN  parse_entries_loop(Tail(csq_entries), fields,
                                         Put(t1, a, Append(t1[a], transcript)))

\* csq_fields is what parse_csq_header returned: zip(None, values) raises
\* TypeError in the first iteration.
parse_csq_entries(csq_entries, fields_opt) ==
    IF Len(csq_entries) = 0 THEN Ok(EmptyDict)
    ELSE IF IsNone(fields_opt) THEN Raise("TypeError")
    ELSE parse_entries_loop(csq_entries, Get(fields_opt), EmptyDict)

(***************************************************************************)
(* resolve_alleles (lines 54-78)                                           *)
(*                                                                         *)
(* entry is a VCF record: [CHROM, POS, REF, ALT, is_indel, is_sv, CSQ].    *)
(***************************************************************************)
\* s[0:1] and s[1:]
First1(s) == IF Len(s) = 0 THEN "" ELSE SubSeq(s, 1, 1)
From1(s) == IF Len(s) = 0 THEN "" ELSE SubSeq(s, 2, Len(s))

\* indel_allele with the anchor base removed without comparing it to REF's
indel_allele_strip(ref, alt) ==
    IF From1(alt) = "" THEN "-" ELSE From1(alt)

\* lines 59-64
indel_allele(ref, alt) ==
    IF First1(alt) # First1(ref) THEN alt
    ELSE IF From1(alt) = "" THEN "-"
    ELSE From1(alt)

\* The elif entry.is_sv branch iterates over the name alts, which is neither
\* a local of resolve_alleles nor a global of the module (it is a local of
\* main): evaluating it raises NameError, whatever the variant.
resolve_alleles(entry, csq_alleles) ==
    IF entry.is_indel
    THEN Ok([alt \in {entry.ALT[i] : i \in 1..Len(entry.ALT)} |->
                indel_allele(entry.REF, alt)])
    ELSE IF entry.is_sv
    THEN Raise("NameError")
    ELSE Ok([alt \in {entry.ALT[i] : i \in 1..Len(entry.ALT)} |-> alt])

(***************************************************************************)
(* transcript_for_alt (lines 80-84)                                        *)
(***************************************************************************)
RECURSIVE pick_loop(_, _)
pick_loop(ts, i) ==
    IF i > Len(ts)
    THEN IF Len(ts) = 0 THEN Raise("IndexError") ELSE Ok(ts[1])
    ELSE IF "PICK" \in DOMAIN ts[i] /\ ts[i]["PICK"] = "1" THEN Ok(ts[i])
    ELSE pick_loop(ts, i + 1)

\* transcript_for_alt returning the first record without looking at PICK
transcript_for_alt_first(transcripts, alt) ==
    IF alt \notin DOMAIN transcripts THEN Raise("KeyError")
    ELSE IF Len(transcripts[alt]) = 0 THEN Raise("IndexError")
    ELSE Ok(transcripts[alt][1])

transcript_for_alt(transcripts, alt) ==
    IF alt \notin DOMAIN transcripts THEN Raise("KeyError")
    ELSE pick_loop(transcripts[alt], 1)

(***************************************************************************)
(* main, index construction: one iteration of the loop at lines 99-129     *)
(***************************************************************************)
\* lines 105-112: the three outer levels of the nested dict
with_levels(d, chr, pos, ref) ==
    LET d1 == IF chr \in DOMAIN d THEN d ELSE Put(d, chr, EmptyDict)
        d2 == IF pos \in DOMAIN d1[chr] THEN d1
              ELSE Put(d1, chr, Put(d1[chr], pos, EmptyDict))
    IN  IF ref \in DOMAIN d2[chr][pos] THEN d2
        ELSE Put(d2, chr, Put(d2[chr], pos, Put(d2[chr][pos], ref, EmptyDict)))

\* vep[chr][pos][ref][alt] = v
set_alt(d, chr, pos, ref, alt, v) ==
    Put(d, chr, Put(d[chr], pos, Put(d[chr][pos], ref,
        Put(d[chr][pos][ref], alt, v))))

\* lines 118-119: no CSQ value; every ALT is assigned None, unconditionally
RECURSIVE mark_unannotated(_, _, _, _, _)
mark_unannotated(d, chr, pos, ref, alts) ==
    IF Len(alts) = 0 THEN d
    ELSE mark_unannotated(set_alt(d, chr, pos, ref, Head(alts), NoneV),
                          chr, pos, ref, Tail(alts))

\* lines 122-129: [exc, val], val the index as it is when the loop ends
RECURSIVE store_loop(_, _, _, _, _, _, _)
store_loop(d, chr, pos, ref, alts, alleles_dict, transcripts) ==
    IF Len(alts) = 0 THEN [exc |-> "", val |-> d]
    ELSE LET alt == Head(alts)
         IN  IF alt \notin DOMAIN d[chr][pos][ref]
             THEN IF alt \notin DOMAIN alleles_dict
                  THEN [exc |-> "KeyError", val |-> d]
                  ELSE IF alleles_dict[alt] \in DOMAIN transcripts
                  THEN LET t == transcript_for_alt(transcripts, alleles_dict[alt])
                       IN  IF t.exc # "" THEN [exc |-> t.exc, val |-> d]
                           ELSE store_loop(
                                    set_alt(d, chr, pos, ref, alt, Some(t.val)),
                                    chr, pos, ref, Tail(alts), alleles_dict,
                                    transcripts)
                  ELSE store_loop(set_alt(d, chr, pos, ref, alt, NoneV),
                                  chr, pos, ref, Tail(alts), alleles_dict,
                                  transcripts)
             ELSE [exc |-> "SystemExit", val |-> d]   \* sys.exit(...) line 129

\* lines 100-129 for one record v: [exc, val]
index_variant(d, v, fields_opt) ==
    LET chr == v.CHROM
        pos == IntToStr(v.POS)
        ref == v.REF
        alts == v.ALT
        d0 == with_levels(d, chr, pos, ref)
    IN  IF IsNone(v.CSQ)
        THEN [exc |-> "", val |-> mark_unannotated(d0, chr, pos, ref, alts)]
        ELSE LET tr == parse_csq_entries(Split(Get(v.CSQ), ","), fields_opt)
             IN  IF tr.exc # "" THEN [exc |-> tr.exc, val |-> d0]
                 ELSE LET al == resolve_alleles(v, DOMAIN tr.val)
                      IN  IF al.exc # "" THEN [exc |-> al.exc, val |-> d0]
                          ELSE store_loop(d0, chr, pos, ref, alts, al.val, tr.val)

(***************************************************************************)
(* main, report streaming: one iteration of the loop at lines 142-155      *)
(***************************************************************************)
\* vep[entry['CHROM']][entry['POS']][entry['REF']][alt], line 147
lookup(d, entry, alt) ==
    IF ~({"CHROM", "POS", "REF"} \subseteq DOMAIN entry) THEN Raise("KeyError")
    ELSE LET c == entry["CHROM"]
             p == entry["POS"]
             r == entry["REF"]
         IN  IF c \notin DOMAIN d THEN Raise("KeyError")
             ELSE IF p \notin DOMAIN d[c] THEN Raise("KeyError")
             ELSE IF r \notin DOMAIN d[c][p] THEN Raise("KeyError")
             ELSE IF alt \notin DOMAIN d[c][p][r] THEN Raise("KeyError")
             ELSE Ok(d[c][p][r][alt])

\* lines 148-153 for one alt: the value appended to field_annotations
annotation_for(vep_annotations, field) ==
    IF ~IsNone(vep_annotations) /\ field \in DOMAIN Get(vep_annotations)
    THEN re_sub(Get(vep_annotations)[field])
    ELSE [exc |-> "", val |-> "-"]

\* lines 145-153: [exc, val], val the list field_annotations
RECURSIVE collect_loop(_, _, _, _)
collect_loop(d, entry, field, alts) ==
    IF Len(alts) = 0 THEN [exc |-> "", val |-> <<>>]
    ELSE LET l == lookup(d, entry, Head(alts))
         IN  IF l.exc # "" THEN [exc |-> l.exc, val |-> <<>>]
             ELSE LET item == annotation_for(l.val, field)
                  IN  IF item.exc # "" THEN [exc |-> item.exc, val |-> <<>>]
                      ELSE LET rest == collect_loop(d, entry, field, Tail(alts))
                           IN  IF rest.exc # "" THEN rest
                               ELSE [exc |-> "", val |-> <<item.val>> \o rest.val]

\* line 154 with another separator
join_annotations_semicolon(field_annotations) == Join(field_annotations, ";")

\* line 154
join_annotations(field_annotations) == Join(field_annotations, ",")

\* lines 144-154. row and entry are one dict (row = entry, line 143), so a
\* field stored under the name of a column replaces that column's value, and
\* the next field reads the replaced value. coll and rows record, per field
\* done, field_annotations and the dict as it stood when the field began.
RECURSIVE fields_loop(_, _, _, _, _)
fields_loop(d, row, fields, coll, rows) ==
    IF Len(fields) = 0
    THEN [exc |-> "", row |-> row, coll |-> coll, rows |-> rows]
    ELSE IF "ALT" \notin DOMAIN row
    THEN [exc |-> "KeyError", row |-> row, coll |-> coll, rows |-> rows]
    ELSE LET field == Head(fields)
             fa == collect_loop(d, row, field, Split(row["ALT"], ","))
         IN  IF fa.exc # ""
             THEN [exc |-> fa.exc, row |-> row, coll |-> coll, rows |-> rows]
             ELSE fields_loop(d, Put(row, field, join_annotations(fa.val)),
                              Tail(fields), Append(coll, fa.val),
                              Append(rows, row))

\* csv.DictWriter.writerow: the row's value under every name of fieldnames
writerow(row, names) == [i \in 1..Len(names) |-> row[names[i]]]

(***************************************************************************)
(* Inputs of a run                                                         *)
(***************************************************************************)
MaxVariants == 3      \* VCF records read in one run
MaxRows == 3          \* report rows read in one run

\* VCF headers: with the CSQ line VEP writes (after a line without ID and an
\* INFO line of another ID), without any CSQ line, and with a CSQ line whose
\* description has no 'Format: ' part.
HeaderGood ==
    << [HeaderType |-> "GENERIC"],
       [ID |-> "AF", Description |-> "\"Allele frequency\""],
       [ID |-> "CSQ",
        Description |->
          "\"Consequence annotations from Ensembl VEP. Format: Allele|Gene|PICK\""] >>
HeaderNoCsq ==
    << [HeaderType |-> "GENERIC"],
       [ID |-> "AF", Description |-> "\"Allele frequency\""] >>
HeaderNoFormat ==
    << [ID |-> "CSQ", Description |-> "\"Consequence annotations\""] >>
Headers == {HeaderGood, HeaderNoCsq, HeaderNoFormat}

\* VCF records, as cyvcf2 gives them. CSQ is variant.INFO.get('CSQ').
Rec(chrom, p, ref, alts, indel, sv, csq) ==
    [CHROM |-> chrom, POS |-> p, REF |-> ref, ALT |-> alts,
     is_indel |-> indel, is_sv |-> sv, CSQ |-> csq]

Variants ==
    { \* a substitution; the second transcript is the picked one
      Rec("1", 100, "A", <<"T">>, FALSE, FALSE,
          Some("T|GENE2|0,T|stop%3Dlost|1")),
      \* the same coordinates and allele, without a CSQ value
      Rec("1", 100, "A", <<"T">>, FALSE, FALSE, NoneV),
      \* two ALTs, annotations for G only; the value decodes to 'a,b'
      Rec("1", 100, "A", <<"T", "G">>, FALSE, FALSE, Some("G|a%2Cb|1")),
      \* an insertion; the entry is shorter than the schema (no PICK)
      Rec("1", 200, "A", <<"AT">>, TRUE, FALSE, Some("T|GENE3")),
      \* a deletion; the value holds a byte that is no UTF-8 text by itself
      Rec("2", 300, "AT", <<"A">>, TRUE, FALSE, Some("-|caf%E9|1")),
      \* a structural variant with a CSQ value
      Rec("2", 400, "A", <<"<DEL>">>, FALSE, TRUE, Some("deletion|GENE5|1")) }

\* The columns of the input report, and rows of it.
ReportColumns == <<"CHROM", "POS", "REF", "ALT", "SYMBOL">>
Row(chrom, p, ref, alt) ==
    [CHROM |-> chrom, POS |-> p, REF |-> ref, ALT |-> alt, SYMBOL |-> "BRCA1"]
Rows ==
    { Row("1", "100", "A", "T"),
      Row("1", "100", "A", "T,G"),
      Row("1", "200", "A", "AT"),
      Row("2", "300", "AT", "A"),
      Row("3", "100", "A", "T") }

\* args.vep_fields: a field of the schema, two of them, one twice, one named
\* like a column of the report, one named like the ALT column.
FieldLists ==
    { <<"Gene">>, <<"Gene", "PICK">>, <<"Gene", "Gene">>,
      <<"SYMBOL", "Gene">>, <<"Gene", "ALT">> }

(***************************************************************************)
(* main (lines 90-156) as a state machine                                  *)
(***************************************************************************)
UnitIdle == fn = "main" /\ fn_in = NoneV /\ fn_out = NoneV

Init ==
    /\ pc = "start"
    /\ err = ""
    /\ vep_fields \in FieldLists
    /\ header \in Headers
    /\ csq_fields = NoneV
    /\ vep = EmptyDict
    /\ variant = NoneV
    /\ n_variants = 0
    /\ fieldnames = <<>>
    /\ out_open = FALSE
    /\ out = <<>>
    /\ report = <<>>
    /\ collected = <<>>
    /\ entry_states = <<>>
    /\ UnitIdle

\* lines 94-98
ParseHeader ==
    /\ pc = "start"
    /\ LET r == parse_csq_header(header)
       IN  /\ pc' = IF r.exc = "" THEN "build" ELSE "aborted"
           /\ err' = r.exc
           /\ csq_fields' = r.val
    /\ UNCHANGED <<vep_fields, header, vep, variant, n_variants, fieldnames,
                   out_open, out, report, collected, entry_states, unit_vars>>

\* lines 99-129, one record of the VCF
IndexVariant ==
    /\ pc = "build"
    /\ n_variants < MaxVariants
    /\ \E v \in Variants :
        LET r == index_variant(vep, v, csq_fields)
        IN  /\ variant' = Some(v)
            /\ vep' = r.val
            /\ pc' = IF r.exc = "" THEN "build" ELSE "aborted"
            /\ err' = r.exc
    /\ n_variants' = n_variants + 1
    /\ UNCHANGED <<vep_fields, header, csq_fields, fieldnames, out_open, out,
                   report, collected, entry_states, unit_vars>>

\* lines 132-141, once the VCF is exhausted
OpenReport ==
    /\ pc = "build"
    /\ pc' = "stream"
    /\ fieldnames' = ReportColumns
    /\ out_open' = TRUE
    /\ out' = <<ReportColumns \o vep_fields>>           \* writeheader()
    /\ UNCHANGED <<err, vep_fields, header, csq_fields, vep, variant,
                   n_variants, report, collected, entry_states, unit_vars>>

\* lines 142-155, one row of the report
StreamRow ==
    /\ pc = "stream"
    /\ Len(report) < MaxRows
    /\ \E entry \in Rows :
        LET r == fields_loop(vep, entry, vep_fields, <<>>, <<>>)
        IN  /\ report' = Append(report, entry)
            /\ collected' = r.coll
            /\ entry_states' = r.rows
            /\ pc' = IF r.exc = "" THEN "stream" ELSE "aborted"
            /\ err' = r.exc
            /\ out' = IF r.exc = ""
                      THEN Append(out, writerow(r.row, fieldnames \o vep_fields))
                      ELSE out
    /\ UNCHANGED <<vep_fields, header, csq_fields, vep, variant, n_variants,
                   fieldnames, out_open, unit_vars>>

\* line 156, once the report is exhausted
CloseOutput ==
    /\ pc = "stream"
    /\ pc' = "done"
    /\ UNCHANGED <<err, vep_fields, header, csq_fields, vep, variant,
                   n_variants, fieldnames, out_open, out, report, collected,
                   entry_states, unit_vars>>

Next == ParseHeader \/ IndexVariant \/ OpenReport \/ StreamRow \/ CloseOutput

Spec == Init /\ [][Next]_vars

(***************************************************************************)
(* Unit specifications: one function applied to an input drawn from a      *)
(* bounded set. main does not run in them.                                 *)
(***************************************************************************)
MainIdle ==
    /\ pc = "unit"
    /\ err = ""
    /\ vep_fields = <<>>
    /\ header = <<>>
    /\ csq_fields = NoneV
    /\ vep = EmptyDict
    /\ variant = NoneV
    /\ n_variants = 0
    /\ fieldnames = <<>>
    /\ out_open = FALSE
    /\ out = <<>>
    /\ report = <<>>
    /\ collected = <<>>
    /\ entry_states = <<>>

\* All strings of at most n characters of the string alphabet
RECURSIVE Strings(_, _)
Strings(alphabet, n) ==
    IF n = 0 THEN {""}
    ELSE LET S == Strings(alphabet, n - 1)
         IN  S \cup {s \o Char(alphabet, i) : s \in S, i \in 1..Len(alphabet)}

\* All lists of 1..n elements of S
Lists(S, n) == UNION {[1..k -> S] : k \in 1..n}

\* ---- the percent-decoding of line 150 ----
MaxLen == 4
DecodeAlphabet == "%3DdEx"
DecodeInputs == Strings(DecodeAlphabet, MaxLen) \cup {"stop%3Dlost"}

InitDecode ==
    /\ MainIdle
    /\ fn = "re_sub"
    /\ fn_in \in DecodeInputs
    /\ fn_out = NoneV

ApplyDecode ==
    /\ fn = "re_sub"
    /\ fn_out = NoneV
    /\ fn_out' = Some(re_sub(fn_in))
    /\ UNCHANGED <<main_vars, fn, fn_in>>

SpecDecode == InitDecode /\ [][ApplyDecode]_vars

\* ---- transcript_for_alt ----
MaxTranscripts == 3
\* Annotation records of the allele token T: PICK missing, or '0', '1', ''
TranscriptRecords ==
    {[Allele |-> "T", Gene |-> g] : g \in {"G1", "G2"}}
    \cup {Put([Allele |-> "T", Gene |-> g], "PICK", p) :
             g \in {"G1", "G2"}, p \in {"0", "1", ""}}

InitSelect ==
    /\ MainIdle
    /\ fn = "transcript_for_alt"
    /\ \E ts \in Lists(TranscriptRecords, MaxTranscripts) :
          fn_in = [transcripts |-> [a \in {"T"} |-> ts], alt |-> "T"]
    /\ fn_out = NoneV

ApplySelect ==
    /\ fn = "transcript_for_alt"
    /\ fn_out = NoneV
    /\ fn_out' = Some(transcript_for_alt(fn_in.transcripts, fn_in.alt))
    /\ UNCHANGED <<main_vars, fn, fn_in>>

SpecSelect == InitSelect /\ [][ApplySelect]_vars

\* ---- resolve_alleles ----
MaxAlts == 2          \* ALTs of one record
MaxAlleleLen == 2     \* characters of one ALT
AltStrings == Strings("AT", MaxAlleleLen) \ {""}
RefStrings == {"A", "T", "AT"}

InitResolve ==
    /\ MainIdle
    /\ fn = "resolve_alleles"
    /\ \E ref \in RefStrings, alts \in Lists(AltStrings, MaxAlts),
          indel \in BOOLEAN, sv \in BOOLEAN :
          fn_in = [entry |-> Rec("1", 100, ref, alts, indel, sv, Some("T|G1|1")),
                   csq_alleles |-> {"T"}]
    /\ fn_out = NoneV

ApplyResolve ==
    /\ fn = "resolve_alleles"
    /\ fn_out = NoneV
    /\ fn_out' = Some(resolve_alleles(fn_in.entry, fn_in.csq_alleles))
    /\ UNCHANGED <<main_vars, fn, fn_in>>

SpecResolve == InitResolve /\ [][ApplyResolve]_vars

(***************************************************************************)
(* Properties                                                              *)
(***************************************************************************)
\* The step is an iteration of the index loop; variant'[1] is its record.
IsIndexStep == pc = "build" /\ n_variants' = n_variants + 1

\* The header gave the schema: the properties of the index and of the
\* report are stated of such runs, so that none of them rests on what a run
\* without schema does.
SchemaParsed == ~IsNone(csq_fields)

\* Whether the index holds an entry (a transcript or None) under the key
HasKey(d, chrom, p, ref, alt) ==
    /\ chrom \in DOMAIN d
    /\ p \in DOMAIN d[chrom]
    /\ ref \in DOMAIN d[chrom][p]
    /\ alt \in DOMAIN d[chrom][p][ref]

\* C1: during index construction, a record that shares CHROM, POS, REF and an
\* ALT with a record read before it (its key is already in the index), with
\* or without a CSQ value on either record, ends the run with the
\* duplicate-entry error (sys.exit) before the output file is opened or
\* written.
C1_DuplicateAborts ==
    [][ (/\ IsIndexStep
         /\ SchemaParsed
         /\ \E i \in 1..Len(variant'[1].ALT) :
               HasKey(vep, variant'[1].CHROM, IntToStr(variant'[1].POS),
                      variant'[1].REF, variant'[1].ALT[i]))
        => (/\ pc' = "aborted"
            /\ err' = "SystemExit"
            /\ out_open' = FALSE
            /\ out' = <<>>) ]_vars

\* The last report row read, as read, and whether it was written
LastEntry == report[Len(report)]
LastWritten == pc # "aborted" /\ Len(out) = Len(report) + 1

\* C2: for the report row just read and every ALT listed in it, if the index
\* holds None for (CHROM,POS,REF,ALT) or no entry at all, then the row is
\* written, the run goes on, and the value collected for that ALT is '-' for
\* every requested field.
C2_AbsentOrMissingGivesDash ==
    (SchemaParsed /\ Len(report) > 0) =>
        LET alts == Split(LastEntry["ALT"], ",")
        IN  \A j \in 1..Len(alts) :
                LET l == lookup(vep, LastEntry, alts[j])
                IN  (l.exc # "" \/ IsNone(l.val)) =>
                        /\ LastWritten
                        /\ \A k \in 1..Len(vep_fields) : collected[k][j] = "-"

\* C3: when a run has ended, either the output holds the header and one row
\* for every report row read, or the run aborted and nothing was written
\* (the output was not even opened).
C3_AllOrNothing ==
    SchemaParsed =>
        /\ pc = "done" => Len(out) = Len(report) + 1
        /\ pc = "aborted" => (out = <<>> /\ ~out_open)

\* Whether a header has a CSQ entry whose description carries 'Format: '
HasCsqFormat(h) ==
    \E i \in 1..Len(h) :
        /\ {"ID", "Description"} \subseteq DOMAIN h[i]
        /\ h[i]["ID"] = "CSQ"
        /\ Find(h[i]["Description"], "Format: ") > 0

\* C4: if the VCF header has no CSQ entry with a 'Format: ' description, the
\* run is aborted as soon as the header has been parsed: no VCF record is
\* indexed and no report row is processed.
C4_MissingSchemaIsFatal ==
    (~HasCsqFormat(header) /\ pc # "start") =>
        /\ pc = "aborted"
        /\ n_variants = 0
        /\ vep = EmptyDict
        /\ report = <<>>

\* C5: the output header is the original columns followed by the requested
\* fields in the order requested, and every written row holds, under every
\* original column, the value the input row has there.
C5_OriginalColumnsKept ==
    (SchemaParsed /\ Len(out) > 0) =>
        /\ out[1] = fieldnames \o vep_fields
        /\ \A i \in 2..Len(out) :
              \A c \in 1..Len(fieldnames) :
                  out[i][c] = report[i - 1][fieldnames[c]]

\* What C9 says the index holds for one ALT of a structural variant with a
\* CSQ value: the token by precedence insertion, deletion, sole token; the
\* picked transcript of that token, or None when there is no token.
SvToken(ref, alt, tokens) ==
    IF "insertion" \in tokens /\ Len(alt) > Len(ref) THEN Some("insertion")
    ELSE IF "deletion" \in tokens /\ Len(alt) < Len(ref) THEN Some("deletion")
    ELSE IF Cardinality(tokens) = 1 THEN Some(CHOOSE t \in tokens : TRUE)
    ELSE NoneV
SvStored(v, alt, fields_opt) ==
    LET tr == parse_csq_entries(Split(Get(v.CSQ), ","), fields_opt).val
        tok == SvToken(v.REF, alt, DOMAIN tr)
    IN  IF IsNone(tok) THEN NoneV
        ELSE Some(transcript_for_alt(tr, Get(tok)).val)

\* C9: when the index loop reads a structural variant (SV flag set, indel
\* flag not set) that carries a CSQ value and whose keys are new, the loop
\* goes on without error and every ALT of the variant is stored with the
\* transcript of its token (insertion, deletion, sole token in that
\* precedence) or, without a token, with None.
C9_StructuralVariantStored ==
    [][ (/\ IsIndexStep
         /\ SchemaParsed
         /\ variant'[1].is_sv /\ ~variant'[1].is_indel
         /\ ~IsNone(variant'[1].CSQ)
         /\ \A i \in 1..Len(variant'[1].ALT) :
               ~HasKey(vep, variant'[1].CHROM, IntToStr(variant'[1].POS),
                       variant'[1].REF, variant'[1].ALT[i]))
        => (/\ pc' = "build"
            /\ err' = ""
            /\ \A i \in 1..Len(variant'[1].ALT) :
                  /\ HasKey(vep', variant'[1].CHROM, IntToStr(variant'[1].POS),
                            variant'[1].REF, variant'[1].ALT[i])
                  /\ vep'[variant'[1].CHROM][IntToStr(variant'[1].POS)]
                         [variant'[1].REF][variant'[1].ALT[i]]
                       = SvStored(variant'[1], variant'[1].ALT[i], csq_fields)) ]_vars

\* The lowest index of a record of ts whose PICK is '1'; 0 without one
Picked(t) == "PICK" \in DOMAIN t /\ t["PICK"] = "1"
FirstPicked(ts) ==
    IF \E i \in 1..Len(ts) : Picked(ts[i])
    THEN CHOOSE i \in 1..Len(ts) :
            Picked(ts[i]) /\ \A j \in 1..(i - 1) : ~Picked(ts[j])
    ELSE 0

\* C6: applied to a non-empty list of annotation records of one allele
\* token, transcript_for_alt does not raise and returns the first record
\* whose PICK is '1', or the first record of the list when no record has
\* PICK equal to '1' (PICK missing or any other value).
C6_FirstPickedOrFirst ==
    (fn = "transcript_for_alt" /\ ~IsNone(fn_out)) =>
        LET ts == fn_in.transcripts[fn_in.alt]
            r == Get(fn_out)
            i == FirstPicked(ts)
        IN  /\ r.exc = ""
            /\ r.val = IF i = 0 THEN ts[1] ELSE ts[i]

\* C6, its case: the first record is not picked, a later one is, and that
\* one was returned.
C6_Witness ==
    /\ fn = "transcript_for_alt"
    /\ ~IsNone(fn_out)
    /\ LET ts == fn_in.transcripts[fn_in.alt]
       IN  /\ FirstPicked(ts) > 1
           /\ Get(fn_out).val = ts[FirstPicked(ts)]
           /\ Get(fn_out).val # ts[1]

\* The token C7 gives an ALT of a variant that is no structural variant
ClaimedToken(indel, ref, alt) ==
    IF ~indel THEN alt
    ELSE IF Head(alt) # Head(ref) THEN alt
    ELSE IF Len(alt) = 1 THEN "-"
    ELSE Tail(alt)

\* C7: for a variant without the SV flag, resolve_alleles returns a dict
\* with exactly one token for every ALT: the ALT itself for a substitution;
\* with the indel flag, the ALT itself when its first character differs from
\* REF's, '-' when the ALT is just the shared anchor base, and else the ALT
\* without its first character.
C7_NonSvTokens ==
    (fn = "resolve_alleles" /\ ~IsNone(fn_out) /\ ~fn_in.entry.is_sv) =>
        LET e == fn_in.entry
            r == Get(fn_out)
        IN  /\ r.exc = ""
            /\ DOMAIN r.val = {e.ALT[i] : i \in 1..Len(e.ALT)}
            /\ \A i \in 1..Len(e.ALT) :
                  r.val[e.ALT[i]] = ClaimedToken(e.is_indel, e.REF, e.ALT[i])

\* C7, its case: an indel with two ALTs sharing REF's anchor base, one just
\* the anchor (token '-'), one longer (token: the inserted bases).
C7_Witness ==
    /\ fn = "resolve_alleles"
    /\ ~IsNone(fn_out)
    /\ fn_in.entry.is_indel /\ ~fn_in.entry.is_sv
    /\ fn_in.entry.REF = "AT"
    /\ fn_in.entry.ALT = <<"A", "AA">>
    /\ Get(fn_out).val["A"] = "-"
    /\ Get(fn_out).val["AA"] = "A"

\* What C8 says the decoding does: every percent sign followed by two hex
\* digits (0-9, A-F, a-f) becomes the character of that byte.
IsHexDigit(c) == IndexOf("0123456789ABCDEFabcdef", c) > 0
IsHexPairAt(s, i) ==
    /\ i + 2 <= Len(s)
    /\ Char(s, i) = "%"
    /\ IsHexDigit(Char(s, i + 1))
    /\ IsHexDigit(Char(s, i + 2))
PairByte(s, i) == 16 * HexValue(Char(s, i + 1)) + HexValue(Char(s, i + 2))
RECURSIVE ClaimedDecodeFrom(_, _)
ClaimedDecodeFrom(s, i) ==
    IF i > Len(s) THEN ""
    ELSE IF IsHexPairAt(s, i)
    THEN decode_utf8(PairByte(s, i)) \o ClaimedDecodeFrom(s, i + 3)
    ELSE Char(s, i) \o ClaimedDecodeFrom(s, i + 1)

\* C8: the decoding replaces every percent sign followed by two hex digits
\* (0-9, A-F, a-f) by the character of that byte and leaves the rest (stated
\* for the strings whose pairs all spell a byte below 0x80); a string
\* without such a pair comes back unchanged, without error; 'stop%3Dlost'
\* gives 'stop=lost'.
C8_EveryHexPairDecoded ==
    (fn = "re_sub" /\ ~IsNone(fn_out)) =>
        LET s == fn_in
            r == Get(fn_out)
            pairs == {i \in 1..Len(s) : IsHexPairAt(s, i)}
        IN  /\ (\A i \in pairs : PairByte(s, i) < 128) =>
                  (r.exc = "" /\ r.val = ClaimedDecodeFrom(s, 1))
            /\ pairs = {} => (r.exc = "" /\ r.val = s)
            /\ s = "stop%3Dlost" => (r.exc = "" /\ r.val = "stop=lost")

\* Number of commas in the strings of a list
RECURSIVE Commas(_)
Commas(items) ==
    IF Len(items) = 0 THEN 0
    ELSE Len(Split(Head(items), ",")) - 1 + Commas(Tail(items))

\* The column of the last written row that holds requested field number k,
\* and the last position at which that field's name was requested (the
\* value stored last under the name is the one written)
NewColumn(k) == out[Len(out)][Len(fieldnames) + k]
LastRequest(k) ==
    CHOOSE m \in 1..Len(vep_fields) :
        /\ vep_fields[m] = vep_fields[k]
        /\ \A n \in (m + 1)..Len(vep_fields) : vep_fields[n] # vep_fields[k]

\* The value main is to collect for one ALT of a row
ExpectedValue(entry, field, alt) ==
    LET l == lookup(vep, entry, alt)
    IN  IF l.exc = "" /\ ~IsNone(l.val) /\ field \in DOMAIN Get(l.val)
        THEN re_sub(Get(l.val)[field]).val
        ELSE "-"

\* C10: for the row just written and every requested field, the new
\* column's value splits on ',' into exactly as many items as the row's ALT
\* column has alleles, the i-th item being the value (decoded, or '-') of
\* the i-th ALT.
C10_OneItemPerAlt ==
    (SchemaParsed /\ Len(report) > 0 /\ LastWritten) =>
        \A k \in 1..Len(vep_fields) :
            LET items == Split(NewColumn(k), ",")
                alts == Split(LastEntry["ALT"], ",")
            IN  /\ Len(items) = Len(alts)
                /\ \A j \in 1..Len(alts) :
                      items[j] = ExpectedValue(LastEntry, vep_fields[k], alts[j])

\* C10, with the commas of the values counted: for the row just written and
\* every requested field, the new column's value is the ','-join of one
\* value per ALT (the decoded value, or '-'), in ALT order, the ALTs and
\* their values being those of the row as it stood when the field was
\* processed; split on ',' it has as many items as there are ALTs plus one
\* for every comma inside the values, and the items are the values
\* themselves when no value holds a comma.
C10_JoinOfValues ==
    (SchemaParsed /\ Len(report) > 0 /\ LastWritten) =>
        \A k \in 1..Len(vep_fields) :
            LET m == LastRequest(k)
                entry == entry_states[m]
                alts == Split(entry["ALT"], ",")
                values == [j \in 1..Len(alts) |->
                              ExpectedValue(entry, vep_fields[m], alts[j])]
                items == Split(NewColumn(k), ",")
            IN  /\ \A c \in DOMAIN LastEntry :
                      (\A n \in 1..(m - 1) : vep_fields[n] # c)
                          => entry[c] = LastEntry[c]
                /\ collected[m] = values
                /\ NewColumn(k) = Join(values, ",")
                /\ Len(items) = Len(alts) + Commas(values)
                /\ Commas(values) = 0 => items = values

\* C10, its case: a row with two ALTs was written and the decoded value of
\* one of them holds a comma ('a%2Cb' decodes to 'a,b').
C10_Witness ==
    /\ SchemaParsed /\ Len(report) > 0 /\ LastWritten
    /\ \E k \in 1..Len(vep_fields) :
          /\ Split(entry_states[k]["ALT"], ",") = <<"T", "G">>
          /\ collected[k] = <<"-", "a,b">>
          /\ NewColumn(k) = "-,a,b"

====
